---------------------------- MODULE Spec2Model ----------------------------
(***************************************************************************)
(* Model of vimeo-dl.py: the line classifier clean_progress_output, the    *)
(* render state kept by VimeoDownloader.download while it streams the      *)
(* child's output, the retry loop over SUPPORTED_BROWSERS, and the         *)
(* top-level flow of main() / VimeoDownloader.run().                       *)
(*                                                                         *)
(* Text is modelled as a sequence of chunks (a line is a Seq of chunk      *)
(* strings).  Substring and prefix tests of the source are evaluated per   *)
(* chunk through the tables Needles / Lower, so that case folding and      *)
(* replacement are computed, not assumed.                                  *)
(***************************************************************************)
EXTENDS Integers, Sequences, FiniteSets, TLC

(***************************************************************************)
(* Bounds of the model.                                                    *)
(***************************************************************************)
\* lines the child may have written to the pipe that were not read yet
MaxPipe == 1
\* cap on spinner_counter (a Python int, unbounded in the program)
MaxSpinnerCounter == 5
\* the child's exit codes range over 0..MaxExitCode
MaxExitCode == 2
\* children left running by abandoned attempts that the model follows at once
MaxOrphans == 1
\* chunks per line where clean_progress_output is checked on every line
MaxLineLen == 3
\* cap on spinner_counter where termination of download() is checked
MaxSpinnerDownload == 1
\* unread lines in the pipe where the order of reading is checked
MaxPipeOrder == 2
\* cap on spinner_counter where one attempt is followed until spinner_idx wraps
MaxSpinnerWrap == 41

(***************************************************************************)
(* Text: chunks, case folding, substring and prefix tests.                 *)
(***************************************************************************)
\* str.lower() on one chunk; chunks without upper-case letters map to themselves
Lower(c) ==
    CASE c = "Merging formats"  -> "merging formats"
      [] c = "Merging"          -> "merging"
      [] c = "MERGING"          -> "merging"
      [] c = "ERROR:"           -> "error:"
      [] c = "Error:"           -> "error:"
      [] c = "WARNING:"         -> "warning:"
      [] c = "Extracting URL:"  -> "extracting url:"
      [] c = "Downloading webpage" -> "downloading webpage"
      [] c = "Video title:"     -> "video title:"
      [] c = "Destination:"     -> "destination:"
      [] c = "MiB"              -> "mib"
      [] c = "KiB"              -> "kib"
      [] c = "GiB"              -> "gib"
      [] c = "42% of 120MiB"    -> "42% of 120mib"
      [] c = "[FixupM3u8]"      -> "[fixupm3u8]"
      [] c = "[FixupTimestamp]" -> "[fixuptimestamp]"
      [] c = "ERROR_LINE"       -> "error_line"
      [] c = "Progress:"        -> "progress:"
      [] c = "Info:"            -> "info:"
      [] OTHER                  -> c

\* the search strings of the source that occur inside chunk c (case-sensitive)
Needles(c) ==
    {c} \cup
    CASE c = "Merging formats"  -> {"Merging"}
      [] c = "merging formats"  -> {"merging"}
      [] c = "42% of 120MiB"    -> {"%", " of ", "MiB"}
      [] c = "42% of 120mib"    -> {"%", " of ", "mib"}
      [] c = "50%"              -> {"%"}
      [] c = "yt-dlp: error:"   -> {"error:"}
      [] OTHER                  -> {}

\* the search strings of the source that chunk c starts with
Prefixes(c) == {c}

\* needle in line
Has(line, needle) == \E i \in DOMAIN line : needle \in Needles(line[i])

\* needle in line.lower()
HasLower(line, needle) == \E i \in DOMAIN line : needle \in Needles(Lower(line[i]))

\* line.startswith(prefix)
StartsWith(line, prefix) == Len(line) > 0 /\ prefix \in Prefixes(line[1])

\* line.lower().startswith(prefix)
LowerStartsWith(line, prefix) == Len(line) > 0 /\ prefix \in Prefixes(Lower(line[1]))

IsSpace(c) == c = " "

RECURSIVE LStrip(_)
LStrip(line) ==
    IF line # <<>> /\ IsSpace(Head(line)) THEN LStrip(Tail(line)) ELSE line

RECURSIVE RStrip(_)
RStrip(line) ==
    IF line # <<>> /\ IsSpace(line[Len(line)])
    THEN RStrip(SubSeq(line, 1, Len(line) - 1))
    ELSE line

\* str.strip()
Strip(line) == RStrip(LStrip(line))

\* str.replace(old, new): every occurrence of the chunk is replaced
Replace(line, old, new) ==
    [i \in DOMAIN line |-> IF line[i] = old THEN new ELSE line[i]]

NoText == <<>>

Event(t, m) == [type |-> t, message |-> m]

(***************************************************************************)
(* clean_progress_output(line): category and display text of one line.     *)
(***************************************************************************)
clean_progress_output(raw) ==
    LET line == Strip(raw) IN
    IF /\ StartsWith(line, "[download]")
       /\ Has(line, "%")
       /\ (Has(line, "MiB") \/ Has(line, "KiB") \/ Has(line, "GiB") \/ Has(line, "bytes"))
       /\ Has(line, " of ")
    THEN Event("PROGRESS", Strip(Replace(line, "[download]", "Progress:")))
    ELSE IF StartsWith(line, "[vimeo]")
    THEN IF Has(line, "Extracting URL:") THEN Event("STATUS_INFO", <<"Extracting info...">>)
         ELSE IF Has(line, "Downloading webpage") THEN Event("STATUS_INFO", <<"Fetching page...">>)
         ELSE Event("IGNORE", NoText)
    ELSE IF Has(line, "Merging formats") \/ (Has(line, "[ffmpeg]") /\ HasLower(line, "Merging"))
    THEN Event("STATUS_MERGE", <<"Merging streams...">>)
    ELSE IF StartsWith(line, "[info]") /\ Has(line, "Video title:")
    THEN Event("STATUS_INFO", Strip(Replace(line, "[info]", "Info:")))
    ELSE IF StartsWith(line, "[download]") /\ Has(line, "Destination:")
    THEN Event("IGNORE", NoText)
    ELSE IF StartsWith(line, "[download]") /\ Has(line, "has already been downloaded")
    THEN Event("STATUS_INFO", <<"Video already downloaded. Skipping...">>)
    ELSE IF StartsWith(line, "[FixupM3u8]") \/ StartsWith(line, "[FixupTimestamp]")
    THEN Event("STATUS_INFO", <<"Finalizing stream...">>)
    ELSE IF \/ LowerStartsWith(line, "error:")
            \/ LowerStartsWith(line, "yt-dlp: error:")
            \/ (StartsWith(line, "WARNING:") /\ HasLower(line, "unable to download video data"))
            \/ (StartsWith(line, "ERROR:") /\ HasLower(line, "giving up"))
    THEN Event("ERROR_LINE", line)
    ELSE Event("IGNORE", NoText)


(***************************************************************************)
(* Program constants and message texts.                                    *)
(***************************************************************************)
SUPPORTED_BROWSERS == <<"chrome", "firefox", "edge", "brave", "chromium", "safari">>

NumBrowsers == Len(SUPPORTED_BROWSERS)

\* spinner_frames: the 8 glyphs, named by position
spinner_frames == <<"f0", "f1", "f2", "f3", "f4", "f5", "f6", "f7">>

\* "Only update spinner every 5 IGNORE lines"
SpinnerEvery == 5

\* last_error_message = "Unknown error."
UnknownError == <<"Unknown error.">>

\* f"yt-dlp exited with code {process.returncode} using {browser}."
ExitMsg(code, browser) == <<"yt-dlp exited with code", ToString(code), "using", browser, ".">>

\* f"Unexpected error with {browser}: {e}"
UnexpectedMsg(browser) == <<"Unexpected error with", browser, ":", "exception text">>

\* f"All browser attempts failed. Last known error: {last_error_message}"
DownloadErrorMsg(last) == <<"All browser attempts failed. Last known error:">> \o last

\* one write to the terminal: text, whether it was ljust-padded, and its line end
Out(text, padded, lineEnd) == [text |-> text, padded |-> padded, end |-> lineEnd]

Newline == Out(NoText, FALSE, "\n")

(***************************************************************************)
(* Lines the child process may print, one per category.                    *)
(***************************************************************************)
LineProgress == <<"[download]", "%", " of ", "MiB">>
LineStatus   == <<"[vimeo]", "Extracting URL:">>
LineMerge    == <<"Merging formats">>
LineError    == <<"ERROR:", "giving up">>
LineOther    == <<"x">>

ChildLines == {LineProgress, LineStatus, LineMerge, LineError, LineOther}

ExitCodes == 0..MaxExitCode

\* the pieces of text a line handed to clean_progress_output is built from
Chunks ==
    {" ", "x", "[download]", "42% of 120MiB", "50%", "Destination:",
     "has already been downloaded", "[vimeo]", "Extracting URL:",
     "Merging formats", "[ffmpeg]", "merging", "MERGING",
     "[info]", "Video title:", "[FixupM3u8]",
     "ERROR:", "error:", "WARNING:", "unable to download video data", "giving up"}

\* every line of at most MaxLineLen chunks
Lines == UNION {[1..n -> Chunks] : n \in 1..MaxLineLen}

(***************************************************************************)
(* State.                                                                  *)
(***************************************************************************)
VARIABLES
    pc,                      \* position of the main thread
    browser_idx,             \* number of browsers the for loop has taken so far
    urls_ok,                 \* FALSE when get_urls returned None for a URL
    download_successful,
    last_error_message,
    process,                 \* the Popen child of the current attempt
    returncode,
    pipe,                    \* lines written by the child, not yet read
    eof,                     \* the child's end of the pipe is closed
    orphans,                 \* children left running by an abandoned attempt
    spinner_idx,
    spinner_counter,
    last_line_ended_with_cr,
    displaying_progress,
    written,                 \* terminal writes of the latest render step
    visible,                 \* what the current terminal line holds
    outcome,                 \* how run() / main() ended
    error_message,           \* message of the exception that reached run()
    logged,                  \* the closing log line of run()
    exit_status,             \* pending argument of sys.exit
    exit_code,               \* exit code of the program, -1 while running
    cleaned,                 \* cleanup() has run
    last_type,               \* history: category of the latest rendered line
    attempt_error,           \* history: latest ErrorLine text of this attempt
    any_error,               \* history: latest ErrorLine text of the download
    generic_only,            \* history: every attempt so far ran and failed by exit code, no ErrorLine
    invoked,                 \* history: browsers Popen was called with, in order
    call,                    \* history: argument and result of the latest clean_progress_output call
    interrupted              \* history: "no", or the pc at which KeyboardInterrupt was raised

ctl    == <<pc, browser_idx, urls_ok, download_successful, last_error_message>>
child  == <<process, returncode, pipe, eof, orphans>>
render == <<spinner_idx, spinner_counter, last_line_ended_with_cr, displaying_progress>>
term   == <<written, visible>>
top    == <<outcome, error_message, logged, exit_status, exit_code, cleaned>>
hist   == <<last_type, attempt_error, any_error, generic_only, invoked, call, interrupted>>

\* no line classified yet
NoCall == [line |-> <<>>, event |-> Event("NONE", NoText)]

vars == <<ctl, child, render, term, top, hist>>

Init ==
    /\ pc = "main"
    /\ browser_idx = 0
    /\ urls_ok = TRUE
    /\ download_successful = FALSE
    /\ last_error_message = UnknownError
    /\ process = "none"
    /\ returncode = -1
    /\ pipe = <<>>
    /\ eof = FALSE
    /\ orphans = 0
    /\ spinner_idx = 0
    /\ spinner_counter = 0
    /\ last_line_ended_with_cr = FALSE
    /\ displaying_progress = FALSE
    /\ written = <<>>
    /\ visible = "blank"
    /\ outcome = "none"
    /\ error_message = NoText
    /\ logged = "none"
    /\ exit_status = 0
    /\ exit_code = -1
    /\ cleaned = FALSE
    /\ last_type = "NONE"
    /\ attempt_error = NoText
    /\ any_error = NoText
    /\ generic_only = TRUE
    /\ invoked = <<>>
    /\ call = NoCall
    /\ interrupted = "no"

(***************************************************************************)
(* main() and VimeoDownloader.run(): construction, prompt, handlers.       *)
(***************************************************************************)
\* variant: the DownloadError handler leaves run() without sys.exit(1)
ExitStatusFor_NoExitOnDownloadError(exc) ==
    IF exc = "DownloadError" THEN 0 ELSE 1

\* the argument of sys.exit in the handler run() has for each exception
ExitStatusFor(exc) ==
    CASE exc = "KeyboardInterrupt" -> 1
      [] exc = "DependencyError"   -> 1
      [] exc = "URLError"          -> 1
      [] exc = "DownloadError"     -> 1
      [] OTHER                     -> 1

\* the log line of the handler run() has for each exception
LogLineFor(exc) ==
    CASE exc = "KeyboardInterrupt" -> "Operation cancelled by user."
      [] exc = "DependencyError"   -> "Setup Error:"
      [] exc = "URLError"          -> "URL Error:"
      [] exc = "DownloadError"     -> "Download Error:"
      [] OTHER                     -> "Unexpected error:"

\* a line written through the logger (StreamHandler on stdout, "\n" appended)
LogOut(text) == Out(text, FALSE, "\n")

\* the frame of download() is gone: its locals hold nothing any more
Unwind ==
    /\ spinner_idx' = 0
    /\ spinner_counter' = 0
    /\ last_line_ended_with_cr' = FALSE
    /\ displaying_progress' = FALSE
    /\ last_type' = "NONE"
    /\ attempt_error' = NoText
    /\ call' = NoCall

\* an exception reaches the except clauses of run(): log, sys.exit, then finally
RunHandler(exc, msg) ==
    /\ outcome' = exc
    /\ error_message' = msg
    /\ logged' = LogLineFor(exc)
    /\ written' = <<LogOut(<<LogLineFor(exc)>> \o msg)>>
    /\ visible' = "blank"
    /\ exit_status' = ExitStatusFor(exc)
    /\ pc' = "finally"
    /\ Unwind
    /\ UNCHANGED <<exit_code, cleaned>>

\* download() returned: run() logs completion and falls through to finally
RunCompleted ==
    /\ outcome' = "success"
    /\ logged' = "Download completed successfully!"
    /\ exit_status' = 0
    /\ pc' = "finally"
    /\ Unwind
    /\ UNCHANGED <<error_message, exit_code, cleaned>>

\* the Popen object of the attempt is dropped; a child that still runs is
\* neither waited for nor killed
Abandon ==
    /\ orphans' = IF process = "running" THEN orphans + 1 ELSE orphans
    /\ process' = "none"
    /\ returncode' = -1
    /\ pipe' = <<>>
    /\ eof' = FALSE

\* main(): VimeoDownloader() raises DependencyError outside run()'s try;
\* the interpreter prints the traceback and exits with code 1
ConstructFails ==
    /\ pc = "main"
    /\ pc' = "exited"
    /\ outcome' = "DependencyError"
    /\ exit_code' = 1
    /\ UNCHANGED <<browser_idx, urls_ok, download_successful, last_error_message>>
    /\ UNCHANGED <<error_message, logged, exit_status, cleaned>>
    /\ UNCHANGED <<child, render, term, hist>>

\* main(): check_dependencies and setup_directories pass, run() starts
Construct ==
    /\ pc = "main"
    /\ pc' = "prompt"
    /\ UNCHANGED <<browser_idx, urls_ok, download_successful, last_error_message>>
    /\ UNCHANGED <<child, render, term, top, hist>>

\* get_urls(): both prompts answered (ok), or a prompt was cancelled and
\* ask() returned None (not ok)
GetUrls(ok) ==
    /\ pc = "prompt"
    /\ urls_ok' = ok
    /\ pc' = "for"
    /\ UNCHANGED <<browser_idx, download_successful, last_error_message>>
    /\ UNCHANGED <<child, render, term, top, hist>>

\* an exception other than the named ones inside run()'s try, before download()
PromptRaises ==
    /\ pc = "prompt"
    /\ RunHandler("Exception", <<"exception text">>)
    /\ UNCHANGED <<browser_idx, urls_ok, download_successful, last_error_message>>
    /\ UNCHANGED <<child, any_error, generic_only, invoked, interrupted>>

\* finally: self.cleanup(), then the process ends with the pending status
Cleanup ==
    /\ pc = "finally"
    /\ cleaned' = TRUE
    /\ exit_code' = exit_status
    /\ pc' = "exited"
    /\ UNCHANGED <<browser_idx, urls_ok, download_successful, last_error_message>>
    /\ UNCHANGED <<outcome, error_message, logged, exit_status>>
    /\ UNCHANGED <<child, render, term, hist>>

(***************************************************************************)
(* The child process and its pipe.                                         *)
(***************************************************************************)
\* lines in the pipe that will be classified IGNORE
PendingIgnorable ==
    Cardinality({i \in DOMAIN pipe : clean_progress_output(pipe[i]).type = "IGNORE"})

\* the child prints one line; the pipe holds at most pipeCap unread lines and
\* the child prints ignorable lines only while spinner_counter stays within spinCap
ChildEmitUpTo(pipeCap, spinCap, line) ==
    /\ process = "running"
    /\ ~eof
    /\ Len(pipe) < pipeCap
    /\ clean_progress_output(line).type = "IGNORE"
           => spinner_counter + PendingIgnorable < spinCap
    /\ pipe' = Append(pipe, line)
    /\ UNCHANGED <<process, returncode, eof, orphans>>
    /\ UNCHANGED <<ctl, render, term, top, hist>>

\* the child prints one line
ChildEmit(line) == ChildEmitUpTo(MaxPipe, MaxSpinnerCounter, line)

\* the write end of the pipe is closed (by the child, or when it is gone)
ChildClose ==
    /\ process \in {"running", "exited"}
    /\ ~eof
    /\ eof' = TRUE
    /\ UNCHANGED <<process, returncode, pipe, orphans>>
    /\ UNCHANGED <<ctl, render, term, top, hist>>

\* the child exits; its status is read when the parent polls it
ChildExit ==
    /\ process = "running"
    /\ process' = "exited"
    /\ UNCHANGED <<returncode, pipe, eof, orphans>>
    /\ UNCHANGED <<ctl, render, term, top, hist>>

\* a child left behind by an abandoned attempt exits
OrphanExit ==
    /\ orphans > 0
    /\ orphans' = orphans - 1
    /\ UNCHANGED <<process, returncode, pipe, eof>>
    /\ UNCHANGED <<ctl, render, term, top, hist>>

(***************************************************************************)
(* VimeoDownloader.download(): rendering of one classified line.           *)
(***************************************************************************)
\* variant: the render locals are initialised once, before the for loop
ResetRenderState_Once ==
    UNCHANGED <<spinner_idx, spinner_counter, last_line_ended_with_cr, displaying_progress>>

\* spinner_idx = 0 ... displaying_progress = False, after Popen returned
ResetRenderState ==
    /\ spinner_idx' = 0
    /\ spinner_counter' = 0
    /\ last_line_ended_with_cr' = FALSE
    /\ displaying_progress' = FALSE

\* line_type == "PROGRESS"
RenderProgress(message) ==
    /\ written' = <<Out(message, TRUE, "\r")>>
    /\ visible' = "progress"
    /\ last_line_ended_with_cr' = TRUE
    /\ displaying_progress' = TRUE
    /\ UNCHANGED <<spinner_idx, spinner_counter, last_error_message>>

\* variant: the status branch forgets last_line_ended_with_cr = False
RenderStatus_KeepCr(type, message) ==
    /\ written' = (IF last_line_ended_with_cr THEN <<Newline>> ELSE <<>>)
                      \o <<LogOut(message)>>
    /\ visible' = "blank"
    /\ displaying_progress' = FALSE
    /\ last_error_message' = IF type = "ERROR_LINE" THEN message ELSE last_error_message
    /\ UNCHANGED <<spinner_idx, spinner_counter, last_line_ended_with_cr>>

\* variant: the status branch forgets displaying_progress = False
RenderStatus_KeepProgress(type, message) ==
    /\ written' = (IF last_line_ended_with_cr THEN <<Newline>> ELSE <<>>)
                      \o <<LogOut(message)>>
    /\ visible' = "blank"
    /\ last_line_ended_with_cr' = FALSE
    /\ last_error_message' = IF type = "ERROR_LINE" THEN message ELSE last_error_message
    /\ UNCHANGED <<spinner_idx, spinner_counter, displaying_progress>>

\* line_type in ["STATUS_INFO", "STATUS_MERGE", "ERROR_LINE"]
RenderStatus(type, message) ==
    /\ written' = (IF last_line_ended_with_cr THEN <<Newline>> ELSE <<>>)
                      \o <<LogOut(message)>>
    /\ visible' = "blank"
    /\ last_line_ended_with_cr' = FALSE
    /\ displaying_progress' = FALSE
    /\ last_error_message' = IF type = "ERROR_LINE" THEN message ELSE last_error_message
    /\ UNCHANGED <<spinner_idx, spinner_counter>>

\* variant: the IGNORE branch without the test of displaying_progress
RenderIgnore_NoProgressTest ==
    /\ spinner_counter' = spinner_counter + 1
    /\ IF spinner_counter' % SpinnerEvery = 0
       THEN /\ spinner_idx' = (spinner_idx + 1) % Len(spinner_frames)
            /\ written' = <<Out(<<spinner_frames[spinner_idx + 1], "Processing...">>,
                                TRUE, "\r")>>
            /\ visible' = "spinner"
            /\ last_line_ended_with_cr' = TRUE
       ELSE /\ written' = <<>>
            /\ UNCHANGED <<spinner_idx, visible, last_line_ended_with_cr>>
    /\ UNCHANGED <<displaying_progress, last_error_message>>

\* variant: spinner_idx is advanced before the frame is taken
RenderIgnore_AdvanceFirst ==
    IF ~displaying_progress
    THEN /\ spinner_counter' = spinner_counter + 1
         /\ IF spinner_counter' % SpinnerEvery = 0
            THEN /\ spinner_idx' = (spinner_idx + 1) % Len(spinner_frames)
                 /\ written' = <<Out(<<spinner_frames[spinner_idx' + 1], "Processing...">>,
                                     TRUE, "\r")>>
                 /\ visible' = "spinner"
                 /\ last_line_ended_with_cr' = TRUE
            ELSE /\ written' = <<>>
                 /\ UNCHANGED <<spinner_idx, visible, last_line_ended_with_cr>>
         /\ UNCHANGED <<displaying_progress, last_error_message>>
    ELSE /\ written' = <<>>
         /\ UNCHANGED <<visible, render, last_error_message>>

\* line_type == "IGNORE"
RenderIgnore ==
    IF ~displaying_progress
    THEN /\ spinner_counter' = spinner_counter + 1
         /\ IF spinner_counter' % SpinnerEvery = 0
            THEN /\ spinner_idx' = (spinner_idx + 1) % Len(spinner_frames)
                 /\ written' = <<Out(<<spinner_frames[spinner_idx + 1], "Processing...">>,
                                     TRUE, "\r")>>
                 /\ visible' = "spinner"
                 /\ last_line_ended_with_cr' = TRUE
            ELSE /\ written' = <<>>
                 /\ UNCHANGED <<spinner_idx, visible, last_line_ended_with_cr>>
         /\ UNCHANGED <<displaying_progress, last_error_message>>
    ELSE /\ written' = <<>>
         /\ UNCHANGED <<visible, render, last_error_message>>

\* the body of the while loop for one line: classify, then render
Render(raw) ==
    LET ev == clean_progress_output(raw) IN
    /\ CASE ev.type = "PROGRESS" -> RenderProgress(ev.message)
         [] ev.type = "IGNORE"   -> RenderIgnore
         [] OTHER                -> RenderStatus(ev.type, ev.message)
    /\ last_type' = ev.type
    /\ call' = [line |-> raw, event |-> ev]
    /\ attempt_error' = IF ev.type = "ERROR_LINE" THEN ev.message ELSE attempt_error
    /\ any_error' = IF ev.type = "ERROR_LINE" THEN ev.message ELSE any_error
    /\ generic_only' = (generic_only /\ ev.type # "ERROR_LINE")

(***************************************************************************)
(* VimeoDownloader.download(): the retry loop.                             *)
(***************************************************************************)
\* logger.info(f"Trying {browser.capitalize()} browser cookies...")
TryingLog(browser) == LogOut(<<"Trying", browser, "browser cookies...">>)

\* variant: the handler lets the exception leave download()
HandleAttemptException_Reraise(browser, before) ==
    /\ RunHandler("Exception", <<"exception text">>)
    /\ generic_only' = FALSE
    /\ UNCHANGED <<download_successful, last_error_message>>

\* except Exception: log, remember the message, continue with the next browser
HandleAttemptException(browser, before) ==
    /\ written' = before \o <<LogOut(UnexpectedMsg(browser))>>
    /\ visible' = "blank"
    /\ last_error_message' = UnexpectedMsg(browser)
    /\ pc' = "for"
    /\ generic_only' = FALSE
    /\ UNCHANGED <<download_successful, top>>

\* variant: no break after a successful attempt
InspectExitStatus_NoBreak(browser, before) ==
    /\ written' = before \o <<LogOut(<<browser, "finished with code", ToString(returncode')>>)>>
    /\ visible' = "blank"
    /\ download_successful' = (download_successful \/ returncode' = 0)
    /\ last_error_message' =
           IF returncode' # 0 /\ ~Has(last_error_message, "ERROR_LINE")
           THEN ExitMsg(returncode', browser)
           ELSE last_error_message
    /\ pc' = "for"
    /\ generic_only' = (generic_only /\ returncode' # 0)
    /\ UNCHANGED <<top, render, last_type, attempt_error, call>>

\* variant: the generic message is kept from the first failure on
InspectExitStatus_KeepFirst(browser, before) ==
    IF returncode' = 0
    THEN /\ written' = before \o <<LogOut(<<"Download successful using", browser>>)>>
         /\ visible' = "blank"
         /\ download_successful' = TRUE
         /\ RunCompleted
         /\ generic_only' = FALSE
         /\ UNCHANGED last_error_message
    ELSE /\ written' = before \o
                <<LogOut(<<browser, "browser failed (exit code", ToString(returncode'), ")">>)>>
         /\ visible' = "blank"
         /\ last_error_message' =
                IF last_error_message = UnknownError
                THEN ExitMsg(returncode', browser)
                ELSE last_error_message
         /\ pc' = "for"
         /\ UNCHANGED <<download_successful, top, generic_only>>
         /\ UNCHANGED <<render, last_type, attempt_error, call>>

\* process.wait() and the test of process.returncode
InspectExitStatus(browser, before) ==
    IF returncode' = 0
    THEN /\ written' = before \o <<LogOut(<<"Download successful using", browser>>)>>
         /\ visible' = "blank"
         /\ download_successful' = TRUE
         /\ RunCompleted
         /\ generic_only' = FALSE
         /\ UNCHANGED last_error_message
    ELSE /\ written' = before \o
                <<LogOut(<<browser, "browser failed (exit code", ToString(returncode'), ")">>)>>
         /\ visible' = "blank"
         /\ last_error_message' =
                IF ~Has(last_error_message, "ERROR_LINE")
                THEN ExitMsg(returncode', browser)
                ELSE last_error_message
         /\ pc' = "for"
         /\ UNCHANGED <<download_successful, top, generic_only>>
         /\ UNCHANGED <<render, last_type, attempt_error, call>>

\* for browser in SUPPORTED_BROWSERS: Popen succeeds, the render state is reset
Launch ==
    /\ pc = "for"
    /\ browser_idx < NumBrowsers
    /\ urls_ok
    /\ browser_idx' = browser_idx + 1
    /\ invoked' = Append(invoked, SUPPORTED_BROWSERS[browser_idx + 1])
    /\ written' = <<TryingLog(SUPPORTED_BROWSERS[browser_idx + 1])>>
    /\ visible' = "blank"
    /\ process' = "running"
    /\ returncode' = -1
    /\ pipe' = <<>>
    /\ eof' = FALSE
    /\ ResetRenderState
    /\ pc' = "read"
    /\ last_type' = "NONE"
    /\ attempt_error' = NoText
    /\ call' = NoCall
    /\ UNCHANGED <<urls_ok, download_successful, last_error_message, orphans>>
    /\ UNCHANGED <<top, any_error, generic_only, interrupted>>

\* for browser in SUPPORTED_BROWSERS: Popen raises (TypeError for a None
\* argument, OSError when the backend cannot be started)
LaunchFails ==
    /\ pc = "for"
    /\ browser_idx < NumBrowsers
    /\ browser_idx' = browser_idx + 1
    /\ invoked' = Append(invoked, SUPPORTED_BROWSERS[browser_idx + 1])
    /\ HandleAttemptException(SUPPORTED_BROWSERS[browser_idx + 1],
                              <<TryingLog(SUPPORTED_BROWSERS[browser_idx + 1])>>)
    /\ UNCHANGED <<urls_ok, child, render>>
    /\ UNCHANGED <<last_type, attempt_error, any_error, call, interrupted>>

\* readline returns a line: it is classified and rendered
ReadLine ==
    /\ pc = "read"
    /\ pipe # <<>>
    /\ pipe' = Tail(pipe)
    /\ Render(Head(pipe))
    /\ UNCHANGED <<pc, browser_idx, urls_ok, download_successful>>
    /\ UNCHANGED <<process, returncode, eof, orphans>>
    /\ UNCHANGED <<top, invoked, interrupted>>

\* readline (decoding) or a write to the terminal raises while a line is
\* handled: the attempt ends in except Exception, the child is not waited for
StreamException ==
    /\ pc = "read"
    /\ pipe # <<>>
    /\ process = "running" => orphans < MaxOrphans
    /\ HandleAttemptException(SUPPORTED_BROWSERS[browser_idx], <<>>)
    /\ Abandon
    /\ UNCHANGED <<browser_idx, urls_ok, render>>
    /\ UNCHANGED <<last_type, attempt_error, any_error, invoked, call, interrupted>>

\* variant: the handlers of download() catch BaseException, so an interrupt
\* that arrives during an attempt is treated like any failed attempt
Interrupt_Swallowed ==
    /\ pc = "read"
    /\ process = "running" => orphans < MaxOrphans
    /\ interrupted' = pc
    /\ HandleAttemptException(SUPPORTED_BROWSERS[browser_idx], <<>>)
    /\ Abandon
    /\ UNCHANGED <<browser_idx, urls_ok, render>>
    /\ UNCHANGED <<last_type, attempt_error, any_error, invoked, call>>

\* KeyboardInterrupt inside run()'s try: it is no Exception, so download()
\* does not catch it
Interrupt ==
    /\ pc \in {"prompt", "for", "read"}
    /\ process = "running" => orphans < MaxOrphans
    /\ interrupted' = pc
    /\ RunHandler("KeyboardInterrupt", NoText)
    /\ Abandon
    /\ UNCHANGED <<browser_idx, urls_ok, download_successful, last_error_message>>
    /\ UNCHANGED <<any_error, generic_only, invoked>>

\* variant: the loop breaks when readline returned "", without the test of
\* poll()
EndOfStream_EofOnly(code) ==
    /\ pc = "read"
    /\ pipe = <<>>
    /\ eof
    /\ returncode' = code
    /\ InspectExitStatus(SUPPORTED_BROWSERS[browser_idx],
                         IF last_line_ended_with_cr THEN <<Newline>> ELSE <<>>)
    /\ UNCHANGED <<browser_idx, urls_ok, process, pipe, eof, orphans>>
    /\ UNCHANGED <<any_error, invoked, interrupted>>

\* variant: the loop breaks as soon as poll() is not None, without the test
\* that readline returned ""
EndOfStream_PollOnly(code) ==
    /\ pc = "read"
    /\ process = "exited"
    /\ returncode' = code
    /\ InspectExitStatus(SUPPORTED_BROWSERS[browser_idx],
                         IF last_line_ended_with_cr THEN <<Newline>> ELSE <<>>)
    /\ UNCHANGED <<browser_idx, urls_ok, process, pipe, eof, orphans>>
    /\ UNCHANGED <<any_error, invoked, interrupted>>

\* readline returns "" and poll() is not None (it yields the child's exit
\* code): break, close the open line, wait, inspect the exit status
EndOfStream(code) ==
    /\ pc = "read"
    /\ pipe = <<>>
    /\ eof
    /\ process = "exited"
    /\ returncode' = code
    /\ InspectExitStatus(SUPPORTED_BROWSERS[browser_idx],
                         IF last_line_ended_with_cr THEN <<Newline>> ELSE <<>>)
    /\ UNCHANGED <<browser_idx, urls_ok, process, pipe, eof, orphans>>
    /\ UNCHANGED <<any_error, invoked, interrupted>>

\* the for loop is exhausted: if not download_successful: raise DownloadError
Exhausted ==
    /\ pc = "for"
    /\ browser_idx = NumBrowsers
    /\ ~download_successful
    /\ RunHandler("DownloadError", DownloadErrorMsg(last_error_message))
    /\ UNCHANGED <<browser_idx, urls_ok, download_successful, last_error_message>>
    /\ UNCHANGED <<child, any_error, generic_only, invoked, interrupted>>

Next ==
    \/ ConstructFails
    \/ Construct
    \/ \E ok \in BOOLEAN : GetUrls(ok)
    \/ PromptRaises
    \/ Interrupt
    \/ Cleanup
    \/ \E line \in ChildLines : ChildEmit(line)
    \/ ChildClose
    \/ ChildExit
    \/ OrphanExit
    \/ Launch
    \/ LaunchFails
    \/ ReadLine
    \/ StreamException
    \/ \E code \in ExitCodes : EndOfStream(code)
    \/ Exhausted

Spec == Init /\ [][Next]_vars

(***************************************************************************)
(* clean_progress_output on every line: the first attempt has just been    *)
(* launched and the child has printed one line, any of Lines.              *)
(***************************************************************************)
\* the state after main() reached the first Popen of download(), with the
\* lines p unread in the pipe
AttemptStart(p) ==
    /\ pc = "read"
    /\ browser_idx = 1
    /\ urls_ok = TRUE
    /\ download_successful = FALSE
    /\ last_error_message = UnknownError
    /\ process = "running"
    /\ returncode = -1
    /\ pipe = p
    /\ eof = FALSE
    /\ orphans = 0
    /\ spinner_idx = 0
    /\ spinner_counter = 0
    /\ last_line_ended_with_cr = FALSE
    /\ displaying_progress = FALSE
    /\ written = <<TryingLog(SUPPORTED_BROWSERS[1])>>
    /\ visible = "blank"
    /\ outcome = "none"
    /\ error_message = NoText
    /\ logged = "none"
    /\ exit_status = 0
    /\ exit_code = -1
    /\ cleaned = FALSE
    /\ last_type = "NONE"
    /\ attempt_error = NoText
    /\ any_error = NoText
    /\ generic_only = TRUE
    /\ invoked = <<SUPPORTED_BROWSERS[1]>>
    /\ call = NoCall
    /\ interrupted = "no"

InitClassify == \E line \in Lines : AttemptStart(<<line>>)

NextClassify == ReadLine

SpecClassify == InitClassify /\ [][NextClassify]_vars

(***************************************************************************)
(* The while loop of one attempt, followed for MaxSpinnerWrap ignorable    *)
(* lines so that spinner_idx runs through all frames and wraps.            *)
(***************************************************************************)
InitSpinner == AttemptStart(<<>>)

NextSpinner ==
    \/ \E line \in ChildLines : ChildEmitUpTo(MaxPipe, MaxSpinnerWrap, line)
    \/ ReadLine

SpecSpinner == InitSpinner /\ [][NextSpinner]_vars

(***************************************************************************)
(* One attempt from Popen to the end of the attempt, with up to            *)
(* MaxPipeOrder lines written by the child and not yet read.               *)
(***************************************************************************)
InitAttempt == AttemptStart(<<>>)

NextAttempt ==
    \/ \E line \in ChildLines : ChildEmitUpTo(MaxPipeOrder, MaxSpinnerCounter, line)
    \/ ChildClose
    \/ ChildExit
    \/ ReadLine
    \/ StreamException
    \/ \E code \in ExitCodes : EndOfStream(code)

SpecAttempt == InitAttempt /\ [][NextAttempt]_vars

(***************************************************************************)
(* download() from its call to its return or raise, no KeyboardInterrupt.  *)
(* The main thread runs whenever it can take a step (readline and poll     *)
(* return); every child eventually closes its output and exits.            *)
(***************************************************************************)
NextDownload ==
    \/ Construct
    \/ \E ok \in BOOLEAN : GetUrls(ok)
    \/ \E line \in ChildLines : ChildEmitUpTo(MaxPipe, MaxSpinnerDownload, line)
    \/ ChildClose
    \/ ChildExit
    \/ OrphanExit
    \/ Launch
    \/ LaunchFails
    \/ ReadLine
    \/ StreamException
    \/ \E code \in ExitCodes : EndOfStream(code)
    \/ Exhausted

SpecDownload ==
    /\ Init
    /\ [][NextDownload]_vars
    /\ WF_vars(Launch \/ LaunchFails)
    /\ WF_vars(ReadLine \/ StreamException)
    /\ WF_vars(\E code \in ExitCodes : EndOfStream(code))
    /\ WF_vars(Exhausted)
    /\ WF_vars(ChildClose)
    /\ WF_vars(ChildExit)

(***************************************************************************)
(* Properties.                                                             *)
(***************************************************************************)
Initial(k) == SubSeq(SUPPORTED_BROWSERS, 1, k)

\* children launched and not yet exited
ActiveChildren == orphans + (IF process = "running" THEN 1 ELSE 0)

\* the step that ends an attempt whose child exited with a non-zero code
NonZeroExitStep == pc = "read" /\ pc' = "for" /\ returncode' > 0

\* the step that ends an attempt whose child exited with code 0
ZeroExitStep == pc = "read" /\ returncode' = 0 /\ returncode # 0

\* the step that renders one line read from the pipe
ReadStep == pc = "read" /\ pc' = "read" /\ pipe # <<>> /\ pipe' = Tail(pipe)

StatusTypes == {"STATUS_INFO", "STATUS_MERGE", "ERROR_LINE"}

\* C1: download() calls the backend for the browsers in list order, each at
\* most once; the attempt that exits with code 0 is the last invocation and
\* makes download() return success (k invocations when it is the k-th); when
\* download() fails with DownloadError exactly NumBrowsers invocations were made.
C1_OrderedShortCircuit ==
    /\ [](/\ invoked = Initial(Len(invoked))
          /\ Len(invoked) = browser_idx
          /\ (download_successful => outcome = "success" /\ returncode = 0)
          /\ (outcome = "DownloadError" => Len(invoked) = NumBrowsers))
    /\ [][/\ (ZeroExitStep => download_successful' /\ outcome' = "success"
                                 /\ invoked' = invoked)
          /\ (download_successful => invoked' = invoked)]_vars

\* C1 case: the third browser succeeded after two failed attempts
C1_Witness ==
    /\ outcome = "success"
    /\ pc = "exited"
    /\ invoked = <<"chrome", "firefox", "edge">>

\* C2: when download() fails with DownloadError the message carries the text
\* of the latest ErrorLine any attempt produced, or a synthesized message if
\* no attempt produced an ErrorLine.  (Read in the code's favour: the message
\* of an attempt that ended in the exception handler is accepted too, so
\* only an ErrorLine text lost to an exit-code message counts against it.)
C2_LastErrorLineReported ==
    outcome = "DownloadError" =>
        \/ \E b \in 1..NumBrowsers :
              error_message = DownloadErrorMsg(UnexpectedMsg(SUPPORTED_BROWSERS[b]))
        \/ IF any_error # NoText
           THEN error_message = DownloadErrorMsg(any_error)
           ELSE \E b \in 1..NumBrowsers, c \in ExitCodes :
                   error_message = DownloadErrorMsg(ExitMsg(c, SUPPORTED_BROWSERS[b]))

\* C3: after an attempt that exits with a non-zero code, last_error_message is
\* the latest ErrorLine text of that attempt if it rendered one, and otherwise
\* the synthesized message naming that attempt's exit code and browser.
C3_ErrorLineRetained ==
    [][NonZeroExitStep =>
          last_error_message' =
              IF attempt_error # NoText
              THEN attempt_error
              ELSE ExitMsg(returncode', SUPPORTED_BROWSERS[browser_idx])]_vars

\* C4: if all 6 browsers were launched, printed no ErrorLine and exited with
\* non-zero codes, the DownloadError message cites the exit code and the name
\* of the 6th browser.
C4_SixthSourceCited ==
    outcome = "DownloadError" /\ generic_only =>
        /\ Len(invoked) = 6
        /\ returncode # 0
        /\ error_message = DownloadErrorMsg(ExitMsg(returncode, SUPPORTED_BROWSERS[6]))

\* C4 case: six generic failures, DownloadError raised
C4_Witness ==
    /\ outcome = "DownloadError"
    /\ generic_only
    /\ invoked = SUPPORTED_BROWSERS
    /\ returncode = 2

\* C5: a failed attempt (non-zero exit, Popen raising, an exception while
\* streaming) never leaves the loop: the controller is back at the loop head
\* with the next browser still to come, nothing reaches run(); DownloadError
\* is raised exactly when every browser was tried and none exited with code 0.
C5_FailuresSwallowed ==
    /\ [](/\ (outcome = "DownloadError" <=>
                 /\ outcome \notin {"none", "KeyboardInterrupt"}
                 /\ Len(invoked) = NumBrowsers
                 /\ ~download_successful)
          /\ (outcome = "Exception" => invoked = <<>>))
    /\ [][/\ (pc = "read" /\ pc' # "read" /\ outcome' \notin {"success", "KeyboardInterrupt"}
                => pc' = "for" /\ outcome' = "none" /\ browser_idx' = browser_idx)
          /\ (pc = "for" /\ browser_idx' # browser_idx
                => /\ browser_idx' = browser_idx + 1
                   /\ pc' \in {"read", "for"}
                   /\ outcome' = "none")
          /\ (outcome = "none" /\ outcome' = "DownloadError"
                => pc = "for" /\ browser_idx = NumBrowsers /\ ~download_successful)]_vars

\* C5 case: the second attempt ended in the exception handler and the third
\* browser is being tried
C5_Witness ==
    /\ pc = "read"
    /\ browser_idx = 3
    /\ last_error_message = UnexpectedMsg("firefox")

\* C6: at most one backend child is active (launched and not yet exited).
C6_OneActiveChild == ActiveChildren <= 1

\* C7: inside an attempt, after a Progress line or an Ignore line that wrote a
\* spinner frame last_line_ended_with_cr is true; after a StatusInfo,
\* StatusMerge or ErrorLine line it is false.
C7_CursorFlag ==
    pc = "read" =>
        /\ (last_type = "PROGRESS" => last_line_ended_with_cr)
        /\ (last_type = "IGNORE" /\ written # <<>> => last_line_ended_with_cr)
        /\ (last_type \in StatusTypes => ~last_line_ended_with_cr)

\* C7 case: a status line closed a spinner line (two writes: newline, text)
C7_Witness ==
    /\ pc = "read"
    /\ last_type \in StatusTypes
    /\ Len(written) = 2
    /\ spinner_idx = 1
    /\ ~last_line_ended_with_cr

\* C8: an Ignore line read while displaying_progress is true writes nothing
\* and changes no render field nor the last error; the line on screen never
\* turns from a progress line into a spinner frame.
C8_IgnoreKeepsProgress ==
    [][/\ (ReadStep /\ clean_progress_output(Head(pipe)).type = "IGNORE"
                    /\ displaying_progress
             => /\ written' = <<>>
                /\ visible' = visible
                /\ UNCHANGED render
                /\ last_error_message' = last_error_message)
       /\ ~(visible = "progress" /\ visible' = "spinner")]_vars

\* C8 case: an Ignore line was read while a progress line is shown
C8_Witness ==
    /\ pc = "read"
    /\ last_type = "IGNORE"
    /\ displaying_progress
    /\ visible = "progress"
    /\ written = <<>>

\* C9: when an attempt has started and none of its lines was rendered yet,
\* the render state is the initial one, whatever earlier attempts rendered.
C9_RenderStateReset ==
    pc = "read" /\ last_type = "NONE" =>
        /\ ~last_line_ended_with_cr
        /\ ~displaying_progress
        /\ spinner_idx = 0
        /\ spinner_counter = 0

\* C9 case: the second attempt starts after the first one rendered lines
C9_Witness ==
    /\ pc = "read"
    /\ last_type = "NONE"
    /\ browser_idx = 2
    /\ any_error # NoText
    /\ last_error_message = ExitMsg(1, "chrome")

\* C10: the exit code is 0 exactly when the download succeeded and 1 after
\* cancellation, a missing tool, an invalid URL, exhaustion of all browsers
\* or an unexpected error.
C10_ExitCode ==
    /\ (pc = "exited" =>
           /\ exit_code \in {0, 1}
           /\ (exit_code = 0 <=> outcome = "success")
           /\ (outcome = "success" <=> download_successful)
           /\ (outcome \in {"KeyboardInterrupt", "DependencyError", "URLError",
                            "DownloadError", "Exception"} => exit_code = 1))
    /\ (pc # "exited" => exit_code = -1)
    /\ \A exc \in {"KeyboardInterrupt", "DependencyError", "URLError",
                   "DownloadError", "Exception"} : ExitStatusFor(exc) = 1

\* C10 case: all browsers failed and the program has exited
C10_Witness ==
    /\ pc = "exited"
    /\ outcome = "DownloadError"
    /\ exit_code = 1

\* C11: cleanup() has run on every exit path of the program, and every
\* top-level error kind has logged its message before the non-zero exit.
C11_CleanupAndLogOnEveryExit ==
    pc = "exited" =>
        /\ cleaned
        /\ (outcome # "success" => logged = LogLineFor(outcome))


\* C12: a KeyboardInterrupt raised while an attempt reads its child is not
\* handled as a failure of that attempt: the step leaves download() for the
\* handler of run() with a non-zero status and leaves the retry state alone;
\* from then on no line is classified, no browser is tried, nothing but
\* cleanup() runs, and the program exits non-zero after cleanup().
C12_InterruptStopsController ==
    [][ /\ (interrupted = "no" /\ interrupted' = "read") =>
              /\ pc' = "finally"
              /\ outcome' = "KeyboardInterrupt"
              /\ exit_status' # 0
              /\ browser_idx' = browser_idx
              /\ last_error_message' = last_error_message
        /\ interrupted = "read" =>
              /\ interrupted' = "read"
              /\ pc' \in {"finally", "exited"}
              /\ invoked' = invoked
              /\ call' = call
              /\ written' = written
              /\ pc' = "exited" => cleaned' /\ exit_code' # 0
      ]_vars

\* an attempt other than the last was interrupted and the program has exited
C12_Witness ==
    /\ interrupted = "read"
    /\ pc = "exited"
    /\ cleaned
    /\ exit_code = 1
    /\ Len(invoked) = 1
    /\ orphans = 1


\* the first attempt has been launched and nothing was read yet
AttemptStartReached == AttemptStart(<<>>)


\* the condition of rule n of the classifier on a stripped line, rule 3 with
\* "merging" looked for in any letter case
RuleHolds(n, line) ==
    CASE n = 1 -> /\ StartsWith(line, "[download]")
                  /\ Has(line, "%")
                  /\ (Has(line, "MiB") \/ Has(line, "KiB") \/ Has(line, "GiB") \/ Has(line, "bytes"))
                  /\ Has(line, " of ")
      [] n = 2 -> StartsWith(line, "[vimeo]")
      [] n = 3 -> \/ Has(line, "Merging formats")
                  \/ (Has(line, "[ffmpeg]") /\ HasLower(line, "merging"))
      [] n = 4 -> StartsWith(line, "[info]") /\ Has(line, "Video title:")
      [] n = 5 -> StartsWith(line, "[download]") /\ Has(line, "Destination:")
      [] n = 6 -> StartsWith(line, "[download]") /\ Has(line, "has already been downloaded")
      [] n = 7 -> StartsWith(line, "[FixupM3u8]") \/ StartsWith(line, "[FixupTimestamp]")
      [] n = 8 -> \/ LowerStartsWith(line, "error:")
                  \/ LowerStartsWith(line, "yt-dlp: error:")
                  \/ (StartsWith(line, "WARNING:") /\ HasLower(line, "unable to download video data"))
                  \/ (StartsWith(line, "ERROR:") /\ HasLower(line, "giving up"))
      [] OTHER -> TRUE

\* the lowest-numbered rule whose condition the line satisfies
FirstRule(line) ==
    CHOOSE n \in 1..9 : RuleHolds(n, line) /\ \A m \in 1..(n - 1) : ~RuleHolds(m, line)

\* the categories rule n can return
RuleCategories(n) ==
    CASE n = 1 -> {"PROGRESS"}
      [] n = 2 -> {"STATUS_INFO", "IGNORE"}
      [] n = 3 -> {"STATUS_MERGE"}
      [] n \in {4, 6, 7} -> {"STATUS_INFO"}
      [] n = 8 -> {"ERROR_LINE"}
      [] OTHER -> {"IGNORE"}

\* C13: the category clean_progress_output returned is that of the
\* lowest-numbered rule the line satisfies, and a line that satisfies none of
\* rules 1-8 gives IGNORE with no text.
C13_FirstMatchingRuleDecides ==
    call # NoCall =>
        LET n == FirstRule(Strip(call.line)) IN
        /\ call.event.type \in RuleCategories(n)
        /\ n = 9 => call.event = Event("IGNORE", NoText)

\* C14: a line that rules 1 and 2 do not decide and that contains
\* "Merging formats", or "[ffmpeg]" together with "merging" in any letter
\* case, gives STATUS_MERGE with the text "Merging streams...".
C14_MergeAnyLetterCase ==
    LET line == Strip(call.line) IN
    (/\ call # NoCall
     /\ ~RuleHolds(1, line)
     /\ ~RuleHolds(2, line)
     /\ RuleHolds(3, line))
        => call.event = Event("STATUS_MERGE", <<"Merging streams...">>)

\* C15: a progress line gives PROGRESS with the leading "[download]" replaced
\* by "Progress:" and the rest of the (stripped) line as it was.
C15_ProgressRemainderVerbatim ==
    LET line == Strip(call.line) IN
    (call # NoCall /\ RuleHolds(1, line))
        => call.event = Event("PROGRESS", <<"Progress:">> \o Tail(line))


\* the attempt is left for the next turn of the for loop: by the exit status
\* (lines 244-258) or by a handler of download() (lines 260-267)
LeaveAttemptStep == pc = "read" /\ pc' = "for"

\* C16: a status or error text is preceded by exactly one newline exactly
\* when the cursor is mid-line, and on every way out of an attempt the notice
\* of the attempt is preceded by exactly one newline exactly when the cursor
\* is mid-line.
C16_InPlaceLineClosed ==
    [][ /\ (ReadStep /\ call'.event.type \in StatusTypes) =>
               written' = (IF last_line_ended_with_cr THEN <<Newline>> ELSE <<>>)
                              \o <<LogOut(call'.event.message)>>
        /\ LeaveAttemptStep =>
               /\ Len(written') = (IF last_line_ended_with_cr THEN 2 ELSE 1)
               /\ last_line_ended_with_cr => written'[1] = Newline
               /\ written'[Len(written')] # Newline
      ]_vars


\* the spinner line written for the k-th spinner update of an attempt
SpinnerOut(k) ==
    Out(<<spinner_frames[((k - 1) % 8) + 1], "Processing...">>, TRUE, "\r")

\* C17: an IGNORE line read while displaying_progress is false adds one to
\* spinner_counter; a spinner line is written exactly when the new counter is
\* a multiple of 5, and the k-th spinner line shows frame (k - 1) mod 8; in
\* every state of the attempt 0 <= spinner_idx <= 7 and
\* spinner_idx = (spinner_counter div 5) mod 8.
C17_SpinnerEveryFifth ==
    /\ [](pc = "read" =>
             /\ spinner_idx \in 0..7
             /\ spinner_idx = (spinner_counter \div 5) % 8)
    /\ [][ (ReadStep /\ call'.event.type = "IGNORE" /\ ~displaying_progress) =>
              /\ spinner_counter' = spinner_counter + 1
              /\ spinner_counter' % 5 = 0 =>
                     written' = <<SpinnerOut(spinner_counter' \div 5)>>
              /\ spinner_counter' % 5 # 0 =>
                     written' = <<>> /\ visible' = visible
         ]_vars

\* the eighth spinner line showed the last frame and spinner_idx wrapped to 0
C17_Witness ==
    /\ pc = "read"
    /\ spinner_counter = 40
    /\ spinner_idx = 0
    /\ written = <<SpinnerOut(8)>>
    /\ written[1].text[1] = spinner_frames[8]


DownloadLeft == pc = "finally" /\ outcome \in {"success", "DownloadError"}

C20_ProgressImpliesCr ==
    pc = "read" => (displaying_progress => last_line_ended_with_cr)

\* the converse fails: after a spinner write last_line_ended_with_cr is true
\* and displaying_progress is false
C20_Witness ==
    /\ pc = "read"
    /\ last_line_ended_with_cr
    /\ ~displaying_progress
    /\ visible = "spinner"
    /\ spinner_counter = SpinnerEvery

=============================================================================
